---- MODULE Spec2Model ----
(***************************************************************************)
(* X-Modem receiver of file_modem.c: the frame receiver _receivePacket,    *)
(* its integrity checks _crc16 and _checkPacket, and the two receive loops *)
(* xmodem_receive and _modem_receive, driven by a peer that answers each   *)
(* frame attempt with a burst of bytes followed by silence, and by a       *)
(* backing store whose f_write may come up short.                          *)
(***************************************************************************)
EXTENDS Integers, Sequences, FiniteSets, TLC

(* ------------------------------------------------------------------ *)
(* Program constants (file_modem.c, lines 17-43)                       *)
(* ------------------------------------------------------------------ *)
PCK_SIZ == 128
PCK_1K == 1024
SOH == 1
STX == 2
EOT == 4
ACK == 6
NAK == 21
CAN == 24
CRC16 == 67
ABORT1 == 65
ABORT2 == 97
MAX_ERR == 10
SRT_TRY == 5

(* enum packageResult, in declaration order *)
PCK_128_RECV == 0
PCK_1K_RECV == 1
PCK_EOT == 2
PCK_TIMEOUT == 3
PCK_INVALID == 4
PCK_CANCEL == 5

(* Widths of the C integer types the code computes in *)
U8 == 256
U16 == 65536

(* ------------------------------------------------------------------ *)
(* Bounds of the model                                                 *)
(* ------------------------------------------------------------------ *)
(* The sender's file has at most MaxFrames blocks: the peer offers a   *)
(* valid frame only while fewer than MaxFrames have been accepted.     *)
MaxFrames == 2
(* Caller-supplied values of *maxsize *)
SizeLimits == {128, 200, 1000, 4000}
(* Loops over a buffer are evaluated in runs of LoopRun bytes (the     *)
(* order of the bytes is the loop's; only the evaluation is cut up).   *)
LoopRun == 64

(* ------------------------------------------------------------------ *)
(* Integer helpers                                                     *)
(* ------------------------------------------------------------------ *)
Min(a, b) == IF a < b THEN a ELSE b
Max(a, b) == IF a > b THEN a ELSE b

(* Bitwise exclusive or of two naturals (C operator ^) *)
RECURSIVE Xor(_, _)
Xor(a, b) ==
    IF a = 0 THEN b
    ELSE IF b = 0 THEN a
    ELSE (((a % 2) + (b % 2)) % 2) + 2 * Xor(a \div 2, b \div 2)

(* ------------------------------------------------------------------ *)
(* _crc16 (lines 51-73)                                                *)
(* ------------------------------------------------------------------ *)
(* One round of the inner for loop, lines 62-69: crc is uint16_t, so    *)
(* the shifted value is cut to 16 bits on assignment.                  *)
CrcShift(crc) ==
    IF crc >= 32768
    THEN Xor((crc * 2) % U16, 4129)
    ELSE (crc * 2) % U16

(* The 8 rounds for one byte, lines 60-70 *)
RECURSIVE CrcRounds(_, _)
CrcRounds(crc, i) ==
    IF i < 8 /\ crc >= 0 THEN CrcRounds(CrcShift(crc), i + 1) ELSE crc

(* Line 58: crc = crc ^ *buf++ << 8, then the 8 rounds *)
CrcByte(crc, byte) == CrcRounds(Xor(crc, byte * 256), 0)

(* while(count--) over buf[from+1 .. to] (1-based) *)
RECURSIVE CrcRun(_, _, _, _)
CrcRun(buf, from, to, crc) ==
    IF from < to /\ crc >= 0
    THEN CrcRun(buf, from + 1, to, CrcByte(crc, buf[from + 1]))
    ELSE crc

RECURSIVE CrcFrom(_, _, _, _)
CrcFrom(buf, from, count, crc) ==
    IF from < count /\ crc >= 0
    THEN CrcFrom(buf, Min(from + LoopRun, count), count,
                 CrcRun(buf, from, Min(from + LoopRun, count), crc))
    ELSE crc

_crc16(buf, count) == CrcFrom(buf, 0, count, 0)

(* ------------------------------------------------------------------ *)
(* _checkPacket (lines 84-104)                                         *)
(* ------------------------------------------------------------------ *)
(* Lines 97-100: uint8_t checksum += buf[cnt_i] *)
RECURSIVE SumRun(_, _, _, _)
SumRun(buf, from, to, checksum) ==
    IF from < to /\ checksum >= 0
    THEN SumRun(buf, from + 1, to, (checksum + buf[from + 1]) % U8)
    ELSE checksum

RECURSIVE SumFrom(_, _, _, _)
SumFrom(buf, from, count, checksum) ==
    IF from < count /\ checksum >= 0
    THEN SumFrom(buf, Min(from + LoopRun, count), count,
                 SumRun(buf, from, Min(from + LoopRun, count), checksum))
    ELSE checksum

Checksum8(buf, count) == SumFrom(buf, 0, count, 0)

(* Returns 1 if the check failed, 0 if it was successful *)
_checkPacket(use_crc, crc_checksum, buf, count) ==
    IF use_crc # 0
    THEN (IF _crc16(buf, count) # crc_checksum THEN 1 ELSE 0)
    ELSE (IF Checksum8(buf, count) # (crc_checksum % U8) THEN 1 ELSE 0)

(* ------------------------------------------------------------------ *)
(* _receivePacket (lines 138-207)                                      *)
(* ------------------------------------------------------------------ *)
(* `stream` is what the transport delivers to this call before it goes *)
(* silent: _recByte returns stream[k] on its k-th call and times out   *)
(* once the stream is used up.  p_data is the work buffer (1-based).   *)

(* switch(u8_ch) for a first byte that is neither SOH, STX nor EOT     *)
(* (lines 155-165): without XMODEM_NON_STANDARD `case CAN:` has no     *)
(* statement of its own and falls through to `default:`.               *)
FirstByteOther(u8_ch, nonStd) ==
    IF nonStd /\ u8_ch \in {CAN, ABORT1, ABORT2} THEN PCK_CANCEL ELSE PCK_INVALID

(* p_data after the payload loop (lines 175-179) stored nread bytes *)
StorePayload(p_data, stream, nread) ==
    SubSeq(stream, 4, 3 + nread) \o SubSeq(p_data, nread + 1, PCK_1K)

(* Lines 182-193: the trailer, high byte first in CRC mode *)
TrailerLen(b_useCRC) == IF b_useCRC # 0 THEN 2 ELSE 1

RecvCRC(stream, siz, b_useCRC) ==
    IF b_useCRC # 0
    THEN stream[3 + siz + 1] * 256 + stream[3 + siz + 2]
    ELSE stream[3 + siz + 1]

(* Lines 197-206: the checks on a frame that was read completely *)
SeqCheckFailsNoCmpl(num0, num1raw, u8_expPacketNum) == num0 # u8_expPacketNum

SeqCheckFailsAnyNum(num0, num1raw, u8_expPacketNum) == num0 # (U8 - 1) - num1raw

SeqCheckFails(num0, num1raw, u8_expPacketNum) ==
    \/ num0 # (U8 - 1) - num1raw
    \/ num0 # u8_expPacketNum

CheckFrame(stream, data, siz, u8_expPacketNum, b_useCRC) ==
    IF SeqCheckFails(stream[2], stream[3], u8_expPacketNum) THEN PCK_INVALID
    ELSE IF _checkPacket(b_useCRC, RecvCRC(stream, siz, b_useCRC), data, siz) # 0 THEN 4
    ELSE IF siz = PCK_SIZ THEN PCK_128_RECV
    ELSE PCK_1K_RECV

(* res: the packageResult; data: the work buffer afterwards; used: the *)
(* number of bytes taken from the stream.                              *)
_receivePacket(stream, p_data, u8_expPacketNum, b_useCRC, nonStd) ==
    LET avail == Len(stream)
    IN  IF avail = 0
        THEN [res |-> PCK_TIMEOUT, data |-> p_data, used |-> 0]
        ELSE IF stream[1] = EOT
        THEN [res |-> PCK_EOT, data |-> p_data, used |-> 1]
        ELSE IF stream[1] \notin {SOH, STX}
        THEN [res |-> FirstByteOther(stream[1], nonStd), data |-> p_data, used |-> 1]
        ELSE LET siz == IF stream[1] = SOH THEN PCK_SIZ ELSE PCK_1K
                 need == 3 + siz + TrailerLen(b_useCRC)
             IN  IF avail < need
                 THEN [res  |-> PCK_TIMEOUT,
                       data |-> StorePayload(p_data, stream, Max(0, Min(siz, avail - 3))),
                       used |-> avail]
                 ELSE LET data == StorePayload(p_data, stream, siz)
                      IN  [res  |-> CheckFrame(stream, data, siz, u8_expPacketNum, b_useCRC),
                           data |-> data,
                           used |-> need]

(* ------------------------------------------------------------------ *)
(* The peer (the sender at the other end of the transport)             *)
(* ------------------------------------------------------------------ *)
(* Block s of the sender's file, cut to len bytes *)
BlockByte(s, i) == (s * 31 + i * 7) % U8

Block(s, len) == [i \in 1..len |-> BlockByte(s, i)]

Frame(start, seq, cmpl, payload, trailer) == <<start, seq, cmpl>> \o payload \o trailer

Cmpl(seq) == (U8 - 1) - seq

SeqRange == 0..(MaxFrames + 1)

(* What the peer may put on the wire in answer to one frame attempt *)
FrameKinds == {"sum128", "sum1k", "crc128", "badcmpl", "badsum", "short"}
ByteKinds == {"silence", "eot", "can", "abort", "junk"}

FrameOf(k, s) ==
    CASE k = "sum128"  -> Frame(SOH, s, Cmpl(s), Block(s, PCK_SIZ),
                                <<Checksum8(Block(s, PCK_SIZ), PCK_SIZ)>>)
      [] k = "sum1k"   -> Frame(STX, s, Cmpl(s), Block(s, PCK_1K),
                                <<Checksum8(Block(s, PCK_1K), PCK_1K)>>)
      [] k = "crc128"  -> Frame(SOH, s, Cmpl(s), Block(s, PCK_SIZ),
                                <<_crc16(Block(s, PCK_SIZ), PCK_SIZ) \div 256,
                                  _crc16(Block(s, PCK_SIZ), PCK_SIZ) % 256>>)
      [] k = "badcmpl" -> Frame(SOH, s, s, Block(s, PCK_SIZ),
                                <<Checksum8(Block(s, PCK_SIZ), PCK_SIZ)>>)
      [] k = "badsum"  -> Frame(SOH, s, Cmpl(s), Block(s, PCK_SIZ),
                                <<(Checksum8(Block(s, PCK_SIZ), PCK_SIZ) + 1) % U8>>)
      [] k = "short"   -> <<SOH, s, Cmpl(s)>>

FrameWire == [k \in FrameKinds |-> [s \in SeqRange |-> FrameOf(k, s)]]

ByteWire == [k \in ByteKinds |->
    CASE k = "silence" -> <<>>
      [] k = "eot"     -> <<EOT>>
      [] k = "can"     -> <<CAN>>
      [] k = "abort"   -> <<ABORT1>>
      [] k = "junk"    -> <<ACK>>]

Wire(o) ==
    IF o.kind \notin FrameKinds THEN ByteWire[o.kind]
    ELSE IF o.seq \in SeqRange THEN FrameWire[o.kind][o.seq]
    ELSE FrameOf(o.kind, o.seq)

(* ------------------------------------------------------------------ *)
(* State                                                               *)
(* ------------------------------------------------------------------ *)
VARIABLES
    nonStandard,          \* the build defines XMODEM_NON_STANDARD (line 28)
    fn,                   \* the receive loop that was called
    pc,                   \* "call", "loop" (line 355/233), "switch" (line 374/238), "done"
    ret,                  \* the value returned
    maxsize,              \* the caller's cell *p_maxsize
    u8a_workbuf,          \* line 42
    packetCounter,        \* u8_pckCnt in _modem_receive
    failedAttempts,       \* u8_failCnt
    useCRC,               \* b_useCRC
    excecuteLoop,         \* u8_execLoop
    totalBytesWritten,    \* u8_totalBytes
    initialTransmission,
    packetResult,         \* u8_pckRes
    loopCnt,
    rx,                   \* bytes waiting in the transport's receive buffer
    file,                 \* bytes f_write has appended to the store
    tx,                   \* bytes sent since the last accepted frame (its ACK included)
    ops,                  \* transport and store calls of the current loop pass, in order
    nAck,                 \* ACK bytes sent so far
    sizeLimit,            \* *p_maxsize as the caller set it
    outcome,              \* the terminal condition the code names at the place it returns
    streak,               \* Timeout/Invalid results since the last accepted frame
    acceptedBytes,        \* payload lengths of the frames _receivePacket accepted
    nAccepted,            \* frames _receivePacket accepted
    allTimeout,           \* every frame attempt so far ended in PCK_TIMEOUT
    script,               \* how far the peer has followed "frames 1..n, then EOT"
    offered,              \* what the peer put on the wire for the last frame attempt
    first                 \* first byte the last frame attempt read, -1 if none

cfgVars == <<nonStandard, fn, sizeLimit>>
obsVars == <<streak, acceptedBytes, nAccepted, allTimeout, script, offered, first>>
vars == <<nonStandard, fn, pc, ret, maxsize, u8a_workbuf, packetCounter, failedAttempts,
          useCRC, excecuteLoop, totalBytesWritten, initialTransmission, packetResult,
          loopCnt, rx, file, tx, ops, nAck, sizeLimit, outcome, streak, acceptedBytes,
          nAccepted, allTimeout, script, offered, first>>

NoOffer == [kind |-> "none", seq |-> 0]
OffScript == [ok |-> FALSE, n |-> 0, eot |-> FALSE]

Init ==
    /\ nonStandard \in BOOLEAN
    /\ fn \in {"xmodem_receive", "_modem_receive"}
    /\ pc = "call"
    /\ ret = 0
    /\ maxsize \in SizeLimits
    /\ sizeLimit = maxsize
    /\ u8a_workbuf = [i \in 1..PCK_1K |-> 0]
    /\ packetCounter = 0
    /\ failedAttempts = 0
    /\ useCRC = 0
    /\ excecuteLoop = 0
    /\ totalBytesWritten = 0
    /\ initialTransmission = 0
    /\ packetResult = 0
    /\ loopCnt = 0
    /\ rx = <<>>
    /\ file = <<>>
    /\ tx = <<>>
    /\ ops = <<>>
    /\ nAck = 0
    /\ outcome = "none"
    /\ streak = 0
    /\ acceptedBytes = 0
    /\ nAccepted = 0
    /\ allTimeout = TRUE
    /\ script = [ok |-> TRUE, n |-> 0, eot |-> FALSE]
    /\ offered = NoOffer
    /\ first = -1

(* ------------------------------------------------------------------ *)
(* The collaborators: transport callbacks and the store                *)
(* ------------------------------------------------------------------ *)
Send(byte) == <<"send", byte>>
Flush == <<"flush", 0>>
Write(bw) == <<"write", bw>>
Sync == <<"sync", 0>>
Delay == <<"delay", 10>>

(* f_write(fp, buf, btw, &bw): appends bw <= btw bytes of buf *)
WriteResults(btw) == {btw, btw \div 2, 0}

f_write(store, buf, bw) == store \o SubSeq(buf, 1, bw)

(* What the peer may answer to the frame attempt for block `exp` *)
Offers(exp, accepted) ==
    {[kind |-> k, seq |-> 0] : k \in ByteKinds}
    \cup {[kind |-> k, seq |-> exp] : k \in {x \in FrameKinds : accepted < MaxFrames}}
    \cup {[kind |-> "sum128", seq |-> (exp + U8 - 1) % U8]}

(* The observations one frame attempt adds *)
Observe(o, stream, r) ==
    /\ offered' = o
    /\ first' = IF Len(stream) > 0 THEN stream[1] ELSE -1
    /\ streak' = IF r.res \in {PCK_TIMEOUT, PCK_INVALID} THEN streak + 1
                 ELSE IF r.res \in {PCK_128_RECV, PCK_1K_RECV} THEN 0
                 ELSE streak
    /\ allTimeout' = (allTimeout /\ r.res = PCK_TIMEOUT)
    /\ acceptedBytes' = IF r.res \in {PCK_128_RECV, PCK_1K_RECV}
                        THEN acceptedBytes + (IF stream[1] = SOH THEN 128 ELSE 1024)
                        ELSE acceptedBytes
    /\ nAccepted' = IF r.res \in {PCK_128_RECV, PCK_1K_RECV} THEN nAccepted + 1 ELSE nAccepted
    /\ script' = IF script.ok /\ ~script.eot /\ rx = <<>> /\ o.kind = "sum128"
                    /\ o.seq = script.n + 1
                 THEN [script EXCEPT !.n = @ + 1]
                 ELSE IF script.ok /\ ~script.eot /\ rx = <<>> /\ o.kind = "eot"
                 THEN [script EXCEPT !.eot = TRUE]
                 ELSE OffScript

(* ------------------------------------------------------------------ *)
(* xmodem_receive (lines 333-473)                                      *)
(* ------------------------------------------------------------------ *)
(* Lines 335-352: the locals' initial values and the flush at entry *)
XCall ==
    /\ pc = "call" /\ fn = "xmodem_receive"
    /\ packetCounter' = 1
    /\ failedAttempts' = 0
    /\ useCRC' = 0
    /\ excecuteLoop' = 0
    /\ totalBytesWritten' = 0
    /\ initialTransmission' = 1
    /\ loopCnt' = 0
    /\ rx' = <<>>
    /\ ops' = <<Flush>>
    /\ pc' = "loop"
    /\ UNCHANGED <<cfgVars, obsVars, ret, maxsize, u8a_workbuf, packetResult, file, tx,
                   nAck, outcome>>

(* Lines 358-368: the byte that pokes the sender *)
ProbeByteCrcOnly(crc) == CRC16

ProbeByte(crc) == IF crc # 0 THEN CRC16 ELSE NAK

(* Lines 358-371: the probe and the call of _receivePacket *)
XReceiveFrom(offers) ==
    /\ pc = "loop" /\ fn = "xmodem_receive"
    /\ \E o \in offers :
        \E stream \in {rx \o Wire(o)} :
        \E r \in {_receivePacket(stream, u8a_workbuf, packetCounter, useCRC, nonStandard)} :
        LET probe == IF initialTransmission # 0 THEN <<ProbeByte(useCRC)>> ELSE <<>>
        IN  /\ tx' = tx \o probe
            /\ ops' = [i \in 1..Len(probe) |-> Send(probe[i])]
            /\ packetResult' = r.res
            /\ u8a_workbuf' = r.data
            /\ rx' = SubSeq(stream, r.used + 1, Len(stream))
            /\ Observe(o, stream, r)
    /\ pc' = "switch"
    /\ UNCHANGED <<cfgVars, ret, maxsize, packetCounter, failedAttempts, useCRC,
                   excecuteLoop, totalBytesWritten, initialTransmission, loopCnt, file,
                   nAck, outcome>>

XReceive == XReceiveFrom(Offers(packetCounter, nAccepted))

(* Lines 336 and 380: uint8_t packetCounter; packetCounter++ *)
NextPacketNumSkipZero(n) == IF n = U8 - 1 THEN 1 ELSE n + 1

NextPacketNum(n) == (n + 1) % U8

(* Line 386 *)
BytesReceivedSwapped(res) == IF res = PCK_1K_RECV THEN PCK_SIZ ELSE PCK_1K

BytesReceived(res) == IF res = PCK_1K_RECV THEN PCK_1K ELSE PCK_SIZ

(* Line 392 *)
DiskFull(bw, btw) == bw < btw

(* uint32_t (lines 344 and 333): a 32-bit unsigned value v is held as   *)
(* v below 2^31 and as v - 2^32 from 2^31 on (its two's complement      *)
(* reading), so that every value of the type fits a 32-bit integer.     *)
MaxInt32 == 2147483647

(* a + n modulo 2^32, for 0 <= n < 2^31 (line 399) *)
Add32(a, n) ==
    IF a >= 0 /\ a > MaxInt32 - n
    THEN ((a - MaxInt32) + (n - MaxInt32)) - 2
    ELSE a + n

(* a >= b as unsigned 32-bit values (line 400) *)
Geq32(a, b) == IF (a >= 0) = (b >= 0) THEN a >= b ELSE a < 0

(* Line 400 *)
SizeReachedStrict(total, limit) == total > limit

SizeReachedLate(total, limit) == total >= limit + 2 * PCK_1K

SizeReached(total, limit) == Geq32(total, limit)

(* Lines 406-416, the calls made after the size check *)
XAfterWriteSynced == <<Sync, Send(ACK)>>

XAfterWrite == <<Delay, Send(ACK)>>

(* Lines 392-414: the calls that follow f_write.  Both early returns    *)
(* (line 395, line 403) leave before the delay and the ACK.            *)
XPacketCallsAckEarly(short, reached) == IF short THEN <<>> ELSE XAfterWrite

XPacketCalls(short, reached) == IF short \/ reached THEN <<>> ELSE XAfterWrite

(* The bytes a sequence of calls hands to _sendByte, in order *)
Sent(calls) ==
    LET sends == SelectSeq(calls, LAMBDA c : c[1] = "send")
    IN  [i \in 1..Len(sends) |-> sends[i][2]]

(* Lines 467-472: *p_maxsize = totalBytesWritten; return --excecuteLoop *)
ReturnCode(loop) == (loop + U8 - 1) % U8

(* Lines 376-417: case PCK_128_RECV, case PCK_1K_RECV.  The total is    *)
(* uint32_t: line 399 adds modulo 2^32.                                *)
XCasePacket ==
    /\ pc = "switch" /\ fn = "xmodem_receive"
    /\ packetResult \in {PCK_128_RECV, PCK_1K_RECV}
    /\ packetCounter' = NextPacketNum(packetCounter)
    /\ failedAttempts' = 0
    /\ initialTransmission' = 0
    /\ \E bw \in WriteResults(BytesReceived(packetResult)) :
        LET bytesReceived == BytesReceived(packetResult)
            total == Add32(totalBytesWritten, bytesReceived)
            calls == XPacketCalls(DiskFull(bw, bytesReceived), SizeReached(total, maxsize))
        IN  /\ file' = f_write(file, u8a_workbuf, bw)
            /\ ops' = ops \o <<Write(bw)>> \o calls
            /\ IF DiskFull(bw, bytesReceived)
               THEN /\ ret' = 5
                    /\ pc' = "done"
                    /\ outcome' = "storage-exhausted"
                    /\ tx' = tx \o Sent(calls)
                    /\ nAck' = nAck + Len(Sent(calls))
                    /\ script' = OffScript
                    /\ UNCHANGED <<totalBytesWritten, loopCnt, offered, first>>
               ELSE IF SizeReached(total, maxsize)
               THEN /\ totalBytesWritten' = total
                    /\ ret' = 6
                    /\ pc' = "done"
                    /\ outcome' = "size-limit-exceeded"
                    /\ tx' = tx \o Sent(calls)
                    /\ nAck' = nAck + Len(Sent(calls))
                    /\ UNCHANGED <<loopCnt, offered, first, script>>
               ELSE /\ totalBytesWritten' = total
                    /\ tx' = Sent(calls)
                    /\ nAck' = nAck + 1
                    /\ loopCnt' = (loopCnt + 1) % U8
                    /\ pc' = "loop"
                    /\ offered' = NoOffer
                    /\ first' = -1
                    /\ UNCHANGED <<ret, outcome, script>>
    /\ UNCHANGED <<cfgVars, maxsize, u8a_workbuf, useCRC, excecuteLoop, packetResult, rx,
                   streak, acceptedBytes, nAccepted, allTimeout>>

(* Lines 418-423, the calls of case PCK_EOT *)
XEotCalls == <<Sync, Send(ACK)>>

(* Lines 418-423 and the exit, lines 465-472 *)
XCaseEOT ==
    /\ pc = "switch" /\ fn = "xmodem_receive"
    /\ packetResult = PCK_EOT
    /\ ops' = ops \o XEotCalls
    /\ tx' = tx \o <<ACK>>
    /\ nAck' = nAck + 1
    /\ failedAttempts' = 0
    /\ excecuteLoop' = 1
    /\ maxsize' = totalBytesWritten
    /\ ret' = ReturnCode(1)
    /\ outcome' = "completed"
    /\ pc' = "done"
    /\ UNCHANGED <<cfgVars, obsVars, u8a_workbuf, packetCounter, useCRC, totalBytesWritten,
                   initialTransmission, packetResult, loopCnt, rx, file>>

(* Line 435 and line 440: the two tests at SRT_TRY failed attempts *)
StartTriesUsed(failed) == failed = SRT_TRY

(* Line 450 *)
RetriesUsedLate(failed) == failed > MAX_ERR

RetriesUsed(failed) == failed >= MAX_ERR

(* useCRC after lines 429-455: the only assignment is line 437, inside  *)
(* the initialTransmission branch                                       *)
ModeAfterFailToggled(crc, failed, initial) ==
    IF StartTriesUsed(failed) THEN 1 - crc ELSE crc

ModeAfterFail(crc, failed, initial) ==
    IF initial # 0 /\ StartTriesUsed(failed) /\ crc # 0 THEN 0 ELSE crc

(* Lines 427 and 454: the transport calls of case PCK_TIMEOUT and       *)
(* case PCK_INVALID                                                     *)
XFailCallsNoFlush(initial) == IF initial # 0 THEN <<>> ELSE <<Send(NAK)>>

XFailCalls(initial) == IF initial # 0 THEN <<Flush>> ELSE <<Flush, Send(NAK)>>

(* The receive buffer after a sequence of calls: _flushRx empties it *)
RxAfter(calls, buf) ==
    IF \E i \in 1..Len(calls) : calls[i] = Flush THEN <<>> ELSE buf

(* Lines 424-456 and, when excecuteLoop was set, the exit *)
XCaseFail ==
    /\ pc = "switch" /\ fn = "xmodem_receive"
    /\ packetResult \in {PCK_TIMEOUT, PCK_INVALID}
    /\ rx' = RxAfter(XFailCalls(initialTransmission), rx)
    /\ ops' = ops \o XFailCalls(initialTransmission)
    /\ tx' = tx \o Sent(XFailCalls(initialTransmission))
    /\ LET failed == (failedAttempts + 1) % U8
       IN  /\ useCRC' = ModeAfterFail(useCRC, failed, initialTransmission)
           /\ IF initialTransmission # 0
              THEN /\ IF StartTriesUsed(failed) /\ useCRC # 0
                      THEN failedAttempts' = 0 /\ excecuteLoop' = 0
                      ELSE IF StartTriesUsed(failed) /\ useCRC = 0
                      THEN failedAttempts' = failed /\ excecuteLoop' = 2
                      ELSE failedAttempts' = failed /\ excecuteLoop' = 0
              ELSE /\ failedAttempts' = failed
                   /\ excecuteLoop' = IF RetriesUsed(failed) THEN 3 ELSE 0
    /\ IF excecuteLoop' # 0
       THEN /\ maxsize' = totalBytesWritten
            /\ ret' = ReturnCode(excecuteLoop')
            /\ outcome' = IF excecuteLoop' = 2 THEN "negotiation-exhausted"
                          ELSE "retries-exhausted"
            /\ pc' = "done"
            /\ offered' = offered
            /\ first' = first
       ELSE /\ pc' = "loop"
            /\ offered' = NoOffer
            /\ first' = -1
            /\ UNCHANGED <<maxsize, ret, outcome>>
    /\ UNCHANGED <<cfgVars, u8a_workbuf, packetCounter, totalBytesWritten,
                   initialTransmission, packetResult, loopCnt, file, nAck, streak,
                   acceptedBytes, nAccepted, allTimeout, script>>

(* Lines 457-460 and the exit *)
XCaseCancel ==
    /\ pc = "switch" /\ fn = "xmodem_receive"
    /\ packetResult = PCK_CANCEL
    /\ rx' = <<>>
    /\ ops' = ops \o <<Flush>>
    /\ excecuteLoop' = 4
    /\ maxsize' = totalBytesWritten
    /\ ret' = ReturnCode(4)
    /\ outcome' = "aborted-by-peer"
    /\ pc' = "done"
    /\ UNCHANGED <<cfgVars, obsVars, u8a_workbuf, packetCounter, failedAttempts, useCRC,
                   totalBytesWritten, initialTransmission, packetResult, loopCnt, file,
                   tx, nAck>>

(* ------------------------------------------------------------------ *)
(* _modem_receive (lines 218-313)                                      *)
(* ------------------------------------------------------------------ *)
(* Lines 220-230: the locals' initial values; no flush, no            *)
(* initialTransmission                                                 *)
MCall ==
    /\ pc = "call" /\ fn = "_modem_receive"
    /\ packetCounter' = 1
    /\ failedAttempts' = 0
    /\ useCRC' = 0
    /\ excecuteLoop' = 0
    /\ totalBytesWritten' = 0
    /\ pc' = "loop"
    /\ UNCHANGED <<cfgVars, obsVars, ret, maxsize, u8a_workbuf, initialTransmission,
                   packetResult, loopCnt, rx, file, tx, ops, nAck, outcome>>

(* Line 235 *)
MReceive ==
    /\ pc = "loop" /\ fn = "_modem_receive"
    /\ \E o \in Offers(packetCounter, nAccepted) :
        \E stream \in {rx \o Wire(o)} :
        \E r \in {_receivePacket(stream, u8a_workbuf, packetCounter, useCRC, nonStandard)} :
            /\ packetResult' = r.res
            /\ u8a_workbuf' = r.data
            /\ rx' = SubSeq(stream, r.used + 1, Len(stream))
            /\ Observe(o, stream, r)
    /\ ops' = <<>>
    /\ pc' = "switch"
    /\ UNCHANGED <<cfgVars, ret, maxsize, packetCounter, failedAttempts, useCRC,
                   excecuteLoop, totalBytesWritten, initialTransmission, loopCnt, file,
                   tx, nAck, outcome>>

(* Line 249: u8_bytesReceived = (u8_pckRes ? PCK_SIZ : PCK_1K) *)
MBytesReceived(res) == IF res # 0 THEN PCK_SIZ ELSE PCK_1K

(* Lines 269-274, the calls made after the size check *)
MAfterWrite == <<Sync, Send(ACK)>>

(* Lines 240-275: case 0, case 1 *)
MCasePacket ==
    /\ pc = "switch" /\ fn = "_modem_receive"
    /\ packetResult \in {0, 1}
    /\ packetCounter' = NextPacketNum(packetCounter)
    /\ failedAttempts' = 0
    /\ \E bw \in WriteResults(MBytesReceived(packetResult)) :
        LET bytesReceived == MBytesReceived(packetResult)
            total == Add32(totalBytesWritten, bytesReceived)
        IN  /\ file' = f_write(file, u8a_workbuf, bw)
            /\ IF DiskFull(bw, bytesReceived)
               THEN /\ ret' = 5
                    /\ pc' = "done"
                    /\ outcome' = "storage-exhausted"
                    /\ ops' = ops \o <<Write(bw)>>
                    /\ script' = OffScript
                    /\ UNCHANGED <<totalBytesWritten, tx, nAck, offered, first>>
               ELSE IF SizeReached(total, maxsize)
               THEN /\ totalBytesWritten' = total
                    /\ ret' = 6
                    /\ pc' = "done"
                    /\ outcome' = "size-limit-exceeded"
                    /\ ops' = ops \o <<Write(bw)>>
                    /\ UNCHANGED <<tx, nAck, offered, first, script>>
               ELSE /\ totalBytesWritten' = total
                    /\ ops' = ops \o <<Write(bw)>> \o MAfterWrite
                    /\ tx' = <<ACK>>
                    /\ nAck' = nAck + 1
                    /\ pc' = "loop"
                    /\ offered' = NoOffer
                    /\ first' = -1
                    /\ UNCHANGED <<ret, outcome, script>>
    /\ UNCHANGED <<cfgVars, maxsize, u8a_workbuf, useCRC, excecuteLoop,
                   initialTransmission, packetResult, loopCnt, rx, streak, acceptedBytes,
                   nAccepted, allTimeout>>

(* Lines 276-281 and the exit, lines 306-312 *)
MCaseEOT ==
    /\ pc = "switch" /\ fn = "_modem_receive"
    /\ packetResult = 2
    /\ ops' = ops \o <<Send(ACK)>>
    /\ tx' = tx \o <<ACK>>
    /\ nAck' = nAck + 1
    /\ failedAttempts' = 0
    /\ excecuteLoop' = 1
    /\ maxsize' = totalBytesWritten
    /\ ret' = ReturnCode(1)
    /\ outcome' = "completed"
    /\ pc' = "done"
    /\ UNCHANGED <<cfgVars, obsVars, u8a_workbuf, packetCounter, useCRC, totalBytesWritten,
                   initialTransmission, packetResult, loopCnt, rx, file>>

(* Lines 282-297 and, when u8_execLoop was set, the exit *)
MCaseFail ==
    /\ pc = "switch" /\ fn = "_modem_receive"
    /\ packetResult \in {3, 4}
    /\ rx' = <<>>
    /\ ops' = ops \o <<Flush, Send(NAK)>>
    /\ tx' = tx \o <<NAK>>
    /\ failedAttempts' = (failedAttempts + 1) % U8
    /\ excecuteLoop' = IF RetriesUsed(failedAttempts') THEN 3 ELSE 0
    /\ IF excecuteLoop' # 0
       THEN /\ maxsize' = totalBytesWritten
            /\ ret' = ReturnCode(excecuteLoop')
            /\ outcome' = "retries-exhausted"
            /\ pc' = "done"
            /\ offered' = offered
            /\ first' = first
       ELSE /\ pc' = "loop"
            /\ offered' = NoOffer
            /\ first' = -1
            /\ UNCHANGED <<maxsize, ret, outcome>>
    /\ UNCHANGED <<cfgVars, u8a_workbuf, packetCounter, useCRC, totalBytesWritten,
                   initialTransmission, packetResult, loopCnt, file, nAck, streak,
                   acceptedBytes, nAccepted, allTimeout, script>>

(* Lines 298-301 and the exit *)
MCaseCancel ==
    /\ pc = "switch" /\ fn = "_modem_receive"
    /\ packetResult = 5
    /\ rx' = <<>>
    /\ ops' = ops \o <<Flush>>
    /\ excecuteLoop' = 4
    /\ maxsize' = totalBytesWritten
    /\ ret' = ReturnCode(4)
    /\ outcome' = "aborted-by-peer"
    /\ pc' = "done"
    /\ UNCHANGED <<cfgVars, obsVars, u8a_workbuf, packetCounter, failedAttempts, useCRC,
                   totalBytesWritten, initialTransmission, packetResult, loopCnt, file,
                   tx, nAck>>

(* ------------------------------------------------------------------ *)
(* Specification                                                       *)
(* ------------------------------------------------------------------ *)
Next ==
    \/ XCall \/ XReceive \/ XCasePacket \/ XCaseEOT \/ XCaseFail \/ XCaseCancel
    \/ MCall \/ MReceive \/ MCasePacket \/ MCaseEOT \/ MCaseFail \/ MCaseCancel

Spec == Init /\ [][Next]_vars

(* ------------------------------------------------------------------ *)
(* _receivePacket on its own: one call on an arbitrary frame           *)
(* ------------------------------------------------------------------ *)
(* The inputs of one call (line 138): the expected packet number, the  *)
(* integrity mode, and a stream that starts like a frame and may stop  *)
(* anywhere.  A frame is described by its start byte, its two sequence *)
(* bytes, the block it carries, its trailer and the place it stops.    *)
FrameStarts == {SOH, STX}
ExpectedNums == {0, 1, U8 - 1}
CmplKinds == {"ok", "same", "off"}
TrailerKinds == {"sum", "sumoff", "crc", "crcoff", "crcswap"}
CutKinds == {"full", "start", "seq", "nopayload", "notrailer", "halftrailer"}
BlockNums == {1, 2}

SizOf(start) == IF start = SOH THEN PCK_SIZ ELSE PCK_1K

BlockTab == [b \in BlockNums |-> [start \in FrameStarts |-> Block(b, SizOf(start))]]

SumTab == [b \in BlockNums |-> [start \in FrameStarts |->
              Checksum8(BlockTab[b][start], SizOf(start))]]

CrcTab == [b \in BlockNums |-> [start \in FrameStarts |->
              _crc16(BlockTab[b][start], SizOf(start))]]

FrameCmpl(seq, kind) ==
    CASE kind = "ok"   -> Cmpl(seq)
      [] kind = "same" -> seq
      [] kind = "off"  -> (Cmpl(seq) + 1) % U8

FrameTrailer(b, start, kind) ==
    CASE kind = "sum"     -> <<SumTab[b][start]>>
      [] kind = "sumoff"  -> <<(SumTab[b][start] + 1) % U8>>
      [] kind = "crc"     -> <<CrcTab[b][start] \div U8, CrcTab[b][start] % U8>>
      [] kind = "crcoff"  -> <<CrcTab[b][start] \div U8, (CrcTab[b][start] + 1) % U8>>
      [] kind = "crcswap" -> <<CrcTab[b][start] % U8, CrcTab[b][start] \div U8>>

FrameCut(full, start, kind) ==
    CASE kind = "full"        -> Len(full)
      [] kind = "start"       -> 1
      [] kind = "seq"         -> 2
      [] kind = "nopayload"   -> 3
      [] kind = "notrailer"   -> 3 + SizOf(start)
      [] kind = "halftrailer" -> 3 + SizOf(start) + 1

FrameIn(d) ==
    LET full == Frame(d.start, d.seq, FrameCmpl(d.seq, d.cmpl), BlockTab[d.block][d.start],
                      FrameTrailer(d.block, d.start, d.trailer))
    IN  SubSeq(full, 1, Min(Len(full), FrameCut(full, d.start, d.cut)))

FrameInputs(exp) ==
    [kind : {"frame"}, start : FrameStarts, seq : {exp, (exp + U8 - 1) % U8},
     cmpl : CmplKinds, block : BlockNums, trailer : TrailerKinds, cut : CutKinds]

(* Every stream starts with SOH or STX, which the switch of lines      *)
(* 145-166 treats alike in both builds: the default build is taken.    *)
FrameInit ==
    /\ nonStandard = FALSE
    /\ fn = "_receivePacket"
    /\ pc = "call"
    /\ packetCounter \in ExpectedNums
    /\ useCRC \in {0, 1}
    /\ offered \in FrameInputs(packetCounter)
    /\ rx = FrameIn(offered)
    /\ u8a_workbuf = [i \in 1..PCK_1K |-> 0]
    /\ ret = 0 /\ maxsize = 0 /\ sizeLimit = 0
    /\ failedAttempts = 0 /\ excecuteLoop = 0 /\ totalBytesWritten = 0
    /\ initialTransmission = 0 /\ packetResult = 0 /\ loopCnt = 0
    /\ file = <<>> /\ tx = <<>> /\ ops = <<>> /\ nAck = 0
    /\ outcome = "none" /\ streak = 0 /\ acceptedBytes = 0 /\ nAccepted = 0
    /\ allTimeout = TRUE /\ script = OffScript /\ first = -1

(* Lines 138-207: the call *)
FrameCall ==
    /\ pc = "call" /\ fn = "_receivePacket"
    /\ \E r \in {_receivePacket(rx, u8a_workbuf, packetCounter, useCRC, nonStandard)} :
        /\ packetResult' = r.res
        /\ u8a_workbuf' = r.data
        /\ rx' = SubSeq(rx, r.used + 1, Len(rx))
    /\ pc' = "done"
    /\ UNCHANGED <<cfgVars, obsVars, ret, maxsize, packetCounter, failedAttempts, useCRC,
                   excecuteLoop, totalBytesWritten, initialTransmission, loopCnt, file,
                   tx, ops, nAck, outcome>>

FrameNext == FrameCall

FrameSpec == FrameInit /\ [][FrameNext]_vars

(* ------------------------------------------------------------------ *)
(* xmodem_receive on a long file: the packet counter wraps             *)
(* ------------------------------------------------------------------ *)
(* The sender's file has WrapFrames blocks of 128 bytes, more than the *)
(* 255 the uint8_t packet counter can number before it wraps, and the  *)
(* caller's size limit is above the file's length.  LongSpec is the    *)
(* whole session from the call on; WrapSpec takes it up in the state   *)
(* the session is in once the first WrapStart blocks have been         *)
(* accepted (WrapStartIsReached relates the two).                      *)
WrapFrames == 260
WrapStart == 254
WrapLimit == 40000

(* The peer of a long transfer: up to block `start` it sends every      *)
(* block once and correctly; from there on it may, up to twice in a     *)
(* row, stay silent, repeat the block just acknowledged, or skip one    *)
(* block ahead; after block `frames` it sends EOT.                      *)
LongOffers(exp, accepted, failed, start, frames) ==
    (IF accepted < frames
     THEN {[kind |-> "sum128", seq |-> exp]}
     ELSE {[kind |-> "eot", seq |-> 0]})
    \cup (IF accepted >= start /\ failed < 2
          THEN {[kind |-> "silence", seq |-> 0],
                [kind |-> "sum128", seq |-> (exp + U8 - 1) % U8],
                [kind |-> "sum128", seq |-> (exp + 1) % U8]}
          ELSE {})

WrapOffers(exp, accepted, failed) == LongOffers(exp, accepted, failed, WrapStart, WrapFrames)

LongInit ==
    /\ nonStandard = FALSE
    /\ fn = "xmodem_receive"
    /\ pc = "call"
    /\ maxsize = WrapLimit
    /\ sizeLimit = maxsize
    /\ u8a_workbuf = [i \in 1..PCK_1K |-> 0]
    /\ ret = 0 /\ packetCounter = 0 /\ failedAttempts = 0 /\ useCRC = 0
    /\ excecuteLoop = 0 /\ totalBytesWritten = 0 /\ initialTransmission = 0
    /\ packetResult = 0 /\ loopCnt = 0
    /\ rx = <<>> /\ file = <<>> /\ tx = <<>> /\ ops = <<>> /\ nAck = 0
    /\ outcome = "none" /\ streak = 0 /\ acceptedBytes = 0 /\ nAccepted = 0
    /\ allTimeout = TRUE /\ script = OffScript /\ offered = NoOffer /\ first = -1

(* The first n blocks of the sender's file, as the store holds them *)
WrapFile(n) ==
    [i \in 1..(PCK_SIZ * n) |-> BlockByte(((i - 1) \div PCK_SIZ) + 1, ((i - 1) % PCK_SIZ) + 1)]

(* The state at the top of the loop (line 355) after n blocks were      *)
(* accepted at the first attempt each and written completely            *)
AfterBlocks(n) ==
    /\ nonStandard = FALSE
    /\ fn = "xmodem_receive"
    /\ pc = "loop"
    /\ maxsize = WrapLimit
    /\ sizeLimit = WrapLimit
    /\ u8a_workbuf = Block(n, PCK_SIZ) \o [i \in 1..(PCK_1K - PCK_SIZ) |-> 0]
    /\ ret = 0 /\ packetCounter = (n + 1) % U8 /\ failedAttempts = 0 /\ useCRC = 0
    /\ excecuteLoop = 0 /\ totalBytesWritten = PCK_SIZ * n /\ initialTransmission = 0
    /\ packetResult = PCK_128_RECV /\ loopCnt = n % U8
    /\ rx = <<>> /\ file = WrapFile(n) /\ tx = <<ACK>>
    /\ ops = <<Write(PCK_SIZ)>> \o XAfterWrite /\ nAck = n
    /\ outcome = "none" /\ streak = 0 /\ acceptedBytes = PCK_SIZ * n /\ nAccepted = n
    /\ allTimeout = FALSE /\ script = OffScript /\ offered = NoOffer /\ first = -1

WrapInit == AfterBlocks(WrapStart)

WrapReceive == XReceiveFrom(WrapOffers(packetCounter, nAccepted, failedAttempts))

LongNext == XCall \/ WrapReceive \/ XCasePacket \/ XCaseEOT \/ XCaseFail

WrapNext == WrapReceive \/ XCasePacket \/ XCaseEOT \/ XCaseFail

LongSpec == LongInit /\ [][LongNext]_vars

WrapSpec == WrapInit /\ [][WrapNext]_vars

(* Under LongSpec: the state in which WrapStart blocks have been       *)
(* accepted and the loop is about to ask for the next one is WrapInit  *)
WrapStartIsReached ==
    (pc = "loop" /\ nAccepted = WrapStart /\ streak = 0) => WrapInit

(* ------------------------------------------------------------------ *)
(* xmodem_receive on a file of 4 GiB: the byte counter wraps           *)
(* ------------------------------------------------------------------ *)
(* The sender's file has WideFrames blocks of 128 bytes, a few more    *)
(* than the 2^25 that make 2^32 bytes.  WideSpec takes the session up  *)
(* in the state it is in once the first WideStart blocks (2^25 - 16)   *)
(* have been accepted, each at the first attempt and written           *)
(* completely: the state AfterBlocks describes, with the counters at   *)
(* their values modulo 2^8 and 2^32.  From that state on `file` and    *)
(* acceptedBytes hold what is appended and accepted after it.          *)
WideFrames == 33554440
WideStart == 33554416

(* The caller's limits: 2^32 - 1 and 2^32 - 128 *)
WideLimits == {-1, -PCK_SIZ}

(* 128 * n modulo 2^32, as a uint32_t *)
Total32(n) ==
    LET k == n % (2 ^ 25)
    IN  IF k < 2 ^ 24 THEN PCK_SIZ * k ELSE PCK_SIZ * (k - 2 ^ 25)

WideInit ==
    /\ nonStandard = FALSE
    /\ fn = "xmodem_receive"
    /\ pc = "loop"
    /\ maxsize \in WideLimits
    /\ sizeLimit = maxsize
    /\ u8a_workbuf = Block(WideStart % U8, PCK_SIZ) \o [i \in 1..(PCK_1K - PCK_SIZ) |-> 0]
    /\ ret = 0 /\ packetCounter = (WideStart + 1) % U8 /\ failedAttempts = 0 /\ useCRC = 0
    /\ excecuteLoop = 0 /\ totalBytesWritten = Total32(WideStart)
    /\ initialTransmission = 0
    /\ packetResult = PCK_128_RECV /\ loopCnt = WideStart % U8
    /\ rx = <<>> /\ file = <<>> /\ tx = <<ACK>>
    /\ ops = <<Write(PCK_SIZ)>> \o XAfterWrite /\ nAck = WideStart
    /\ outcome = "none" /\ streak = 0 /\ acceptedBytes = 0 /\ nAccepted = WideStart
    /\ allTimeout = FALSE /\ script = OffScript /\ offered = NoOffer /\ first = -1

WideReceive ==
    XReceiveFrom(LongOffers(packetCounter, nAccepted, failedAttempts, WideStart, WideFrames))

WideNext == WideReceive \/ XCasePacket \/ XCaseEOT \/ XCaseFail

WideSpec == WideInit /\ [][WideNext]_vars

(* ------------------------------------------------------------------ *)
(* Properties                                                          *)
(* ------------------------------------------------------------------ *)
IsX == fn = "xmodem_receive"
IsM == fn = "_modem_receive"
Done == pc = "done"
Repeat(byte, count) == [i \in 1..count |-> byte]
HasCall(calls, name) == \E i \in 1..Len(calls) : calls[i][1] = name
Tail2(calls) == SubSeq(calls, Len(calls) - 1, Len(calls))
Tail3(calls) == SubSeq(calls, Len(calls) - 2, Len(calls))

(* C1: when every frame attempt of xmodem_receive times out, it returns *)
(* 1 (negotiation exhausted) after sending exactly 5 CRC probes (0x43)  *)
(* followed by exactly 5 NAK probes (0x15), 10 probe bytes in all.      *)
C1_ProbesCrcThenNak ==
    (Done /\ IsX /\ allTimeout) =>
        /\ outcome = "negotiation-exhausted"
        /\ tx = Repeat(CRC16, SRT_TRY) \o Repeat(NAK, SRT_TRY)

(* C2: the value xmodem_receive returns is the code the header documents *)
(* for the terminal condition: 0 completed, 1 failed start, 2 failed    *)
(* package request, 3 abort, 4 disk full, 5 maxsize reached; no other.  *)
DocumentedCode(o) ==
    CASE o = "completed" -> 0
      [] o = "negotiation-exhausted" -> 1
      [] o = "retries-exhausted" -> 2
      [] o = "aborted-by-peer" -> 3
      [] o = "storage-exhausted" -> 4
      [] o = "size-limit-exceeded" -> 5

C2_ReturnCodesAsDocumented ==
    (Done /\ IsX) => (ret \in 0..5 /\ ret = DocumentedCode(outcome))

(* C3: whenever xmodem_receive returns, for every terminal outcome, the  *)
(* value stored back through the maxsize pointer is the total number of  *)
(* payload bytes accepted during the session.                            *)
C3_MaxsizeHoldsBytesAccepted ==
    (Done /\ IsX) => maxsize = acceptedBytes

(* C4: when the first byte of a frame attempt is the cancel marker 0x18, *)
(* the frame receiver returns Cancelled and the session flushes the      *)
(* receive buffer and returns aborted-by-peer without any retry, with 0  *)
(* bytes received if nothing was accepted before.                        *)
C4_CancelAborts ==
    (IsX /\ first = CAN) =>
        /\ pc = "switch" => packetResult = PCK_CANCEL
        /\ Done => /\ outcome = "aborted-by-peer"
                   /\ ops[Len(ops)] = Flush
                   /\ acceptedBytes = 0 => maxsize = 0

(* C5: when the peer answers the first probe of xmodem_receive with a    *)
(* 128-byte frame of sequence number 1 that carries the correct CRC-16   *)
(* of its payload, the frame is accepted, under CRC-16 mode.             *)
C5_CrcFrameAccepted ==
    (IsX /\ pc = "switch" /\ nAck = 0 /\ Len(tx) = 1
         /\ offered = [kind |-> "crc128", seq |-> 1]) =>
        (packetResult = PCK_128_RECV /\ useCRC # 0)

(* C6: for a peer that delivers n valid 128-byte checksum frames with    *)
(* sequence numbers 1..n and then EOT, a store that takes every write    *)
(* and a size limit above 128*n, xmodem_receive returns completed with   *)
(* 128*n bytes received, having sent n+1 ACK bytes: one as the last send *)
(* of each frame's loop pass, and the final one for the EOT.             *)
C6_CleanTransfer ==
    (IsX /\ script.ok /\ sizeLimit > PCK_SIZ * script.n) =>
        /\ (Done /\ script.eot) =>
              /\ outcome = "completed" /\ ret = 0
              /\ maxsize = PCK_SIZ * script.n
              /\ Len(file) = PCK_SIZ * script.n
              /\ nAck = script.n + 1
              /\ ops[Len(ops)] = Send(ACK)
        /\ (pc = "loop" /\ script.n >= 1) =>
              /\ nAck = script.n
              /\ tx = <<ACK>>
              /\ ops[Len(ops)] = Send(ACK)

C6_Witness ==
    /\ Done /\ IsX /\ script.ok /\ script.eot /\ script.n = 2
    /\ sizeLimit = 1000 /\ maxsize = 256 /\ nAck = 3 /\ ret = 0

(* C7: once a payload frame has been accepted, the session returns       *)
(* retries-exhausted exactly when 10 consecutive frame attempts since    *)
(* the last accepted frame ended in Timeout or Invalid: it never goes on *)
(* after 10, never gives up before 10, and the failure counter equals    *)
(* the number of failures since the last accepted frame.                 *)
C7_RetryBudget ==
    /\ (Done /\ outcome = "retries-exhausted") => streak = MAX_ERR
    /\ (Done /\ nAccepted >= 1 /\ streak >= MAX_ERR) => outcome = "retries-exhausted"
    /\ (pc = "loop" /\ nAccepted >= 1) => (streak < MAX_ERR /\ failedAttempts = streak)

C7_Witness ==
    /\ Done /\ IsX /\ outcome = "retries-exhausted" /\ nAccepted = 2
    /\ streak = MAX_ERR /\ failedAttempts = MAX_ERR

LastPayloadLen == IF first = SOH THEN PCK_SIZ ELSE PCK_1K

C10_SyncAfterEveryFrame ==
    (pc = "loop" /\ HasCall(ops, "write")) =>
        /\ Len(ops) >= 3
        /\ Tail3(ops)[1][1] = "write"
        /\ Tail3(ops)[2] = Sync
        /\ Tail3(ops)[3] = Send(ACK)

(* C10 amended: _modem_receive calls sync once after the append of every *)
(* accepted frame that does not end the session and before its ACK;      *)
(* xmodem_receive does not call sync there (it waits 10 ms between the   *)
(* append and the ACK) and calls sync once, on EOT, before the final ACK *)
C10_SyncPolicy ==
    /\ (pc = "loop" /\ HasCall(ops, "write") /\ IsM) =>
          (Len(ops) = 3 /\ ops[1][1] = "write" /\ Tail2(ops) = <<Sync, Send(ACK)>>)
    /\ (pc = "loop" /\ HasCall(ops, "write") /\ IsX) =>
          /\ ~HasCall(ops, "sync")
          /\ Tail3(ops)[1][1] = "write"
          /\ Tail2(ops) = <<Delay, Send(ACK)>>
    /\ (Done /\ IsX /\ outcome = "completed") =>
          (Tail2(ops) = <<Sync, Send(ACK)>> /\ ~HasCall(ops, "write"))

C10_Witness ==
    /\ pc = "loop" /\ IsX /\ nAck = 2 /\ HasCall(ops, "write")
    /\ ops = <<Write(PCK_1K), Delay, Send(ACK)>>

(* C11: when the session ends with storage-exhausted or with            *)
(* size-limit-exceeded, the step that ends it sends no byte and reads   *)
(* none: the bytes sent and the receive buffer are as the frame attempt *)
(* left them, the frame is not acknowledged (one ACK fewer than frames  *)
(* accepted), the write is the last call of the pass, preceded at most  *)
(* by the probe sent before the frame attempt, and nothing follows.     *)
Fatal(o) == o \in {"storage-exhausted", "size-limit-exceeded"}

C11_FatalState ==
    (Done /\ Fatal(outcome)) =>
        /\ nAck = nAccepted - 1
        /\ Len(ops) >= 1 /\ ops[Len(ops)][1] = "write"
        /\ \A i \in 1..(Len(ops) - 1) : ops[i] = Send(NAK) /\ i = 1 /\ nAccepted = 1 /\ IsX
        /\ ~ENABLED Next

C11_FatalStep ==
    (~Fatal(outcome) /\ Fatal(outcome')) => (tx' = tx /\ nAck' = nAck /\ rx' = rx)

C11_NoExchangeAfterFatal == []C11_FatalState /\ [][C11_FatalStep]_vars

C11_Witness ==
    /\ Done /\ IsX /\ outcome = "size-limit-exceeded" /\ sizeLimit = 200
    /\ nAccepted = 2 /\ nAck = 1 /\ tx = <<ACK>> /\ ops = <<Write(PCK_SIZ)>>

(* Reference integrity values, defined on the payload as a bit string:  *)
(* the 8-bit sum is the sum of the bytes modulo 256; the CRC-16/XMODEM  *)
(* is the remainder of the message, shifted in bit by bit, most         *)
(* significant bit first, modulo x^16 + x^12 + x^5 + 1, from 0.         *)
RECURSIVE RefTotal(_, _, _, _)
RefTotal(buf, from, to, sum) ==
    IF from < to /\ sum >= 0 THEN RefTotal(buf, from + 1, to, sum + buf[from + 1]) ELSE sum

RECURSIVE RefTotalFrom(_, _, _)
RefTotalFrom(buf, from, sum) ==
    IF from < Len(buf) /\ sum >= 0
    THEN RefTotalFrom(buf, Min(from + LoopRun, Len(buf)),
                      RefTotal(buf, from, Min(from + LoopRun, Len(buf)), sum))
    ELSE sum

RefSum(payload) == RefTotalFrom(payload, 0, 0) % 256

RefCrcBit(reg, bit) ==
    LET out == ((reg \div 32768) + bit) % 2
        shifted == (reg * 2) % 65536
    IN  IF out = 1 THEN Xor(shifted, 4129) ELSE shifted

RECURSIVE RefCrcBits(_, _, _)
RefCrcBits(reg, byte, k) ==
    IF k > 0 /\ reg >= 0
    THEN RefCrcBits(RefCrcBit(reg, (byte \div (2 ^ (k - 1))) % 2), byte, k - 1)
    ELSE reg

RECURSIVE RefCrcRun(_, _, _, _)
RefCrcRun(buf, from, to, reg) ==
    IF from < to /\ reg >= 0
    THEN RefCrcRun(buf, from + 1, to, RefCrcBits(reg, buf[from + 1], 8))
    ELSE reg

RECURSIVE RefCrcFrom(_, _, _)
RefCrcFrom(buf, from, reg) ==
    IF from < Len(buf) /\ reg >= 0
    THEN RefCrcFrom(buf, Min(from + LoopRun, Len(buf)),
                    RefCrcRun(buf, from, Min(from + LoopRun, Len(buf)), reg))
    ELSE reg

RefCrc(payload) == RefCrcFrom(payload, 0, 0)

RefSumTab == [b \in BlockNums |-> [start \in FrameStarts |-> RefSum(BlockTab[b][start])]]
RefCrcTab == [b \in BlockNums |-> [start \in FrameStarts |-> RefCrc(BlockTab[b][start])]]

(* C12: _receivePacket accepts a frame exactly when all its bytes were  *)
(* read (start, two sequence bytes, payload, trailer of the mode), the  *)
(* first sequence byte is the bitwise complement of the second and is   *)
(* the expected number, and the trailer is the integrity value of the   *)
(* payload (8-bit sum, or CRC-16/XMODEM high byte first); the result    *)
(* then tells the payload length.  A frame read completely that fails   *)
(* a check is PCK_INVALID; a frame that stops early is never accepted.  *)
C12_FrameAcceptance ==
    (fn = "_receivePacket" /\ Done) =>
        LET w == FrameIn(offered)
            siz == IF w[1] = SOH THEN 128 ELSE 1024
            need == 3 + siz + (IF useCRC # 0 THEN 2 ELSE 1)
            complete == Len(w) >= need
            cmplOk == w[2] = 255 - w[3]
            seqOk == w[2] = packetCounter
            trailer == IF useCRC # 0 THEN w[need - 1] * 256 + w[need] ELSE w[need]
            integrity == IF useCRC # 0 THEN RefCrcTab[offered.block][offered.start]
                         ELSE RefSumTab[offered.block][offered.start]
            accepted == packetResult \in {PCK_128_RECV, PCK_1K_RECV}
            good == complete /\ cmplOk /\ seqOk /\ trailer = integrity
        IN  /\ accepted <=> good
            /\ accepted => packetResult = (IF siz = 128 THEN PCK_128_RECV ELSE PCK_1K_RECV)
            /\ (complete /\ ~good) => packetResult = PCK_INVALID
            /\ ~complete => packetResult = PCK_TIMEOUT

C12_Witness ==
    /\ fn = "_receivePacket" /\ Done /\ useCRC = 1 /\ packetResult = PCK_1K_RECV
    /\ packetCounter = 0 /\ offered.seq = 0 /\ offered.trailer = "crc"

(* C13: in steady state a NAK is sent after a Timeout/Invalid result     *)
(* only when the session goes on: the failure that brings the counter    *)
(* to 10 ends the session with retries-exhausted without a NAK, so the   *)
(* streak that ends the session has sent exactly 9 NAK bytes.            *)
NakCount(bytes) == Len(SelectSeq(bytes, LAMBDA b : b = NAK))

C13_NoNakOnLastFailure ==
    (Done /\ outcome = "retries-exhausted") =>
        /\ ~HasCall(ops, "send")
        /\ NakCount(tx) = MAX_ERR - 1

(* C14: in xmodem_receive, until the first payload frame has been        *)
(* accepted, exactly one probe byte is sent before each frame attempt,   *)
(* 0x43 if the mode is CRC-16 and 0x15 if it is checksum, and a Timeout  *)
(* or Invalid result sends no NAK of its own: the bytes sent are one     *)
(* probe per attempt.  Once a payload frame has been accepted, nothing   *)
(* is sent before a frame attempt.                                       *)
AcceptedBefore ==
    nAccepted - (IF packetResult \in {PCK_128_RECV, PCK_1K_RECV} THEN 1 ELSE 0)

C14_OneProbePerAttempt ==
    /\ (IsX /\ pc = "switch") =>
          ops = (IF AcceptedBefore = 0
                 THEN <<Send(IF useCRC # 0 THEN 67 ELSE 21)>>
                 ELSE <<>>)
    /\ (IsX /\ pc = "loop" /\ nAccepted = 0 /\ streak > 0) =>
          /\ Len(tx) = streak
          /\ \A i \in 1..Len(tx) : tx[i] \in {67, 21}
          /\ ops = <<Send(tx[Len(tx)]), Flush>>
    /\ (IsX /\ Done /\ outcome = "negotiation-exhausted") =>
          (Len(tx) = streak /\ ops = <<Send(tx[Len(tx)]), Flush>>)

C14_Witness ==
    /\ IsX /\ pc = "loop" /\ nAccepted = 0 /\ streak = 3
    /\ tx = Repeat(NAK, 3) /\ ops = <<Send(NAK), Flush>>

(* C15: in xmodem_receive the integrity mode handed to _receivePacket    *)
(* changes only while no payload frame has been accepted: every step     *)
(* taken after the first accepted frame leaves it as it is, and a step   *)
(* that changes it goes from CRC-16 to checksum (so at most once), on    *)
(* the fifth consecutive failed attempt of the negotiation.              *)
C15_ModeStep ==
    /\ (IsX /\ pc # "call" /\ initialTransmission = 0) => useCRC' = useCRC
    /\ (IsX /\ pc # "call" /\ useCRC' # useCRC) =>
          /\ useCRC # 0 /\ useCRC' = 0
          /\ nAccepted = 0 /\ packetResult \in {PCK_TIMEOUT, PCK_INVALID}
          /\ streak = SRT_TRY

C16_AppendsPayloadLength ==
    (pc \in {"loop", "done"} /\ outcome # "storage-exhausted") =>
        /\ Len(file) = acceptedBytes
        /\ totalBytesWritten = acceptedBytes

(* C17: the expected sequence number starts at 1, goes up by exactly 1   *)
(* on every accepted frame and on nothing else, and wraps as an unsigned *)
(* 8-bit number: it is (1 + frames accepted) mod 256, so after frame 255 *)
(* the receiver expects 0, and a valid frame is accepted exactly when    *)
(* its sequence byte is the expected number, the frame with sequence     *)
(* bytes 0x00/0xFF included.                                             *)
C17_SequenceWraps ==
    /\ (IsX /\ pc = "switch") => packetCounter = (1 + AcceptedBefore) % 256
    /\ (IsX /\ pc \in {"loop", "done"}) => packetCounter = (1 + nAccepted) % 256
    /\ (IsX /\ pc = "switch" /\ offered.kind = "sum128") =>
          (packetResult = PCK_128_RECV <=> offered.seq = (1 + AcceptedBefore) % 256)

C17_Witness ==
    /\ IsX /\ pc = "switch" /\ packetCounter = 0 /\ nAccepted = 256
    /\ offered = [kind |-> "sum128", seq |-> 0] /\ first = SOH
    /\ packetResult = PCK_128_RECV /\ streak = 0

(* C18: the step that handles a Timeout or Invalid result flushes the    *)
(* receive buffer and leaves the expected sequence number, the running   *)
(* total and the store as they are (no write, no sync); the loop then    *)
(* asks again for the same number, or returns, and then only with        *)
(* negotiation-exhausted or retries-exhausted.                           *)
C18_FaultStep ==
    (pc = "switch" /\ packetResult \in {PCK_TIMEOUT, PCK_INVALID}) =>
        /\ rx' = <<>>
        /\ HasCall(ops', "flush")
        /\ ~HasCall(ops', "write") /\ ~HasCall(ops', "sync")
        /\ packetCounter' = packetCounter
        /\ totalBytesWritten' = totalBytesWritten
        /\ file' = file
        /\ acceptedBytes' = acceptedBytes
        /\ pc' \in {"loop", "done"}
        /\ pc' = "done" =>
              /\ outcome' \in {"negotiation-exhausted", "retries-exhausted"}
              /\ ret' \in {1, 2}
              /\ streak \in {SRT_TRY, MAX_ERR}

C18_FaultsStayInside == [][C18_FaultStep]_vars

C18_Witness ==
    /\ IsX /\ pc = "loop" /\ nAccepted = 1 /\ streak = 2 /\ failedAttempts = 2
    /\ packetCounter = 2 /\ totalBytesWritten = PCK_SIZ /\ Len(file) = PCK_SIZ
    /\ rx = <<>> /\ ops = <<Flush, Send(NAK)>>

(* C19: xmodem_receive terminates for every 32-bit size limit and every  *)
(* peer; in particular a peer that keeps sending valid frames cannot     *)
(* keep the session running, also when the running total is counted      *)
(* modulo 2^32.  What bounds the session against such a peer is the size *)
(* limit: the loop is never back at its top once the frames accepted,    *)
(* at 128 bytes or more each, have brought the bytes accepted to the     *)
(* limit.                                                                *)
FramesToReach(limit) ==
    IF limit >= 0 THEN (limit + (PCK_SIZ - 1)) \div PCK_SIZ
    ELSE (2 ^ 25) - ((0 - limit) \div PCK_SIZ)

C19_LimitEndsSession ==
    (IsX /\ pc = "loop") => nAccepted < FramesToReach(sizeLimit)

(* C20: in xmodem_receive the store holds, at the start of every frame   *)
(* attempt, the payloads of the sender's blocks 1, 2, 3, ... in that     *)
(* order, one per accepted frame and each once, 128 or 1024 bytes long,  *)
(* and the running total is the number of bytes in the store; a frame    *)
(* whose sequence number is not the expected one (the repetition of the  *)
(* block accepted just before included) is not accepted and adds nothing.*)
RECURSIVE IsBlocks(_, _, _)
IsBlocks(bytes, s, n) ==
    IF n = 0 THEN bytes = <<>>
    ELSE \E len \in {128, 1024} :
            /\ Len(bytes) >= len
            /\ SubSeq(bytes, 1, len) = [i \in 1..len |-> BlockByte(s % 256, i)]
            /\ IsBlocks(SubSeq(bytes, len + 1, Len(bytes)), s + 1, n - 1)

====
